---- MODULE Spec2Model ----
(***************************************************************************)
(* Model of runpod_tts: the preprocess worker                              *)
(* (src/docker/preprocess/preprocess_handler.py).                          *)
(*                                                                         *)
(* A Python str is modelled as the sequence of its code points (ord(c)),   *)
(* so that UTF-8 byte lengths, range tests and substring tests are         *)
(* computed the way the code computes them.  A token is a str.             *)
(***************************************************************************)
EXTENDS Integers, Sequences, FiniteSets, TLC

\* ------------------------------------------------------------------ bounds

\* longest text drawn character by character from Alphabet
MaxLen == 3

\* longest token sequence handed to list_str_to_idx on its own
MaxTokens == 2

\* most requests one process is followed through
MaxRequests == 2

\* most rows of the api-key table
MaxKeys == 1

\* latest reading of the clock, and latest expiry date of a key
MaxClock == 2

\* ------------------------------------------------------- program constants

HOP_LENGTH == 256
SAMPLE_RATE == 24000

\* ----------------------------------------------------------- str helpers

Last(s) == s[Len(s)]

\* Python: p in s, for two strs (a substring test; "" is in every str)
IsSubstr(p, s) ==
    \E k \in 0..(Len(s) - Len(p)) : SubSeq(s, k + 1, k + Len(p)) = p

\* Python: a <= b on strs (lexicographic on code points)
RECURSIVE StrLE(_, _)
StrLE(a, b) ==
    IF a = <<>> THEN TRUE
    ELSE IF b = <<>> THEN FALSE
    ELSE IF a[1] < b[1] THEN TRUE
    ELSE IF a[1] > b[1] THEN FALSE
    ELSE StrLE(Tail(a), Tail(b))

\* Python: len(c.encode('utf-8')) for one code point (not a surrogate)
Utf8Len1(c) ==
    IF c < 128 THEN 1
    ELSE IF c < 2048 THEN 2
    ELSE IF c < 65536 THEN 3
    ELSE 4

\* Python: len(s.encode('utf-8'))
RECURSIVE Utf8Len(_)
Utf8Len(s) == IF s = <<>> THEN 0 ELSE Utf8Len1(s[1]) + Utf8Len(Tail(s))

\* Python: text.replace(old, new), old non-empty: leftmost, non-overlapping
RECURSIVE replace(_, _, _)
replace(text, old, new) ==
    IF Len(text) < Len(old) THEN text
    ELSE IF SubSeq(text, 1, Len(old)) = old
         THEN new \o replace(SubSeq(text, Len(old) + 1, Len(text)), old, new)
         ELSE <<text[1]>> \o replace(Tail(text), old, new)

\* ------------------------------------------------------ character literals

SPACE == <<32>>
DQUOTE == <<34>>
APOS == <<39>>
COMMA == <<44>>
SEMICOLON == <<59>>

\* line 52's third literal as Python reads it: the two ''' delimit one str,
\* the 15 characters  , "'").replace(
MANGLED == <<44, 32, 34, 39, 34, 41, 46, 114, 101, 112, 108, 97, 99, 101, 40>>

\* " :'\""  (line 68)
NO_SPACE_AFTER == <<32, 58, 39, 34>>

\* "。，、；：？！《》【】—…"  (lines 74 and 85)
PUNCT == <<12290, 65292, 12289, 65307, 65306, 65311, 65281,
           12298, 12299, 12304, 12305, 8212, 8230>>

\* ------------------------------------------------- transliteration (pypinyin)

\* lazy_pinyin(..., style=Style.TONE3) on a few Han characters:
\* 你 -> ni3, 好 -> hao3, 世 -> shi4, 界 -> jie4, and 的 -> de (neutral tone:
\* no digit)
PinyinTable ==
    (20320 :> <<110, 105, 51>>) @@
    (22909 :> <<104, 97, 111, 51>>) @@
    (19990 :> <<115, 104, 105, 52>>) @@
    (30028 :> <<106, 105, 101, 52>>) @@
    (30340 :> <<100, 101>>)

\* lazy_pinyin(seg, style=Style.TONE3, tone_sandhi=True): one syllable per Han
\* character, a character that has no reading is returned as it is
RECURSIVE lazy_pinyin(_)
lazy_pinyin(seg) ==
    IF seg = <<>> THEN <<>>
    ELSE <<IF seg[1] \in DOMAIN PinyinTable THEN PinyinTable[seg[1]]
           ELSE <<seg[1]>>>> \o lazy_pinyin(Tail(seg))

\* ---------------------------------------------------------------- segmenter

replace_quotes(text) ==
    replace(replace(replace(replace(text, DQUOTE, DQUOTE), DQUOTE, DQUOTE),
                    MANGLED, APOS),
            SEMICOLON, COMMA)

\* c is a str (a token): the comparisons are str comparisons
is_japanese(c) ==
    \/ StrLE(<<12352>>, c) /\ StrLE(c, <<12447>>)
    \/ StrLE(<<12448>>, c) /\ StrLE(c, <<12543>>)
    \/ StrLE(<<65382>>, c) /\ StrLE(c, <<65439>>)

\* The loop state: char_list as in the code, and origin, a ghost list that
\* records for each token the position (in the normalised text) of the
\* character whose iteration appended it.
EmptyList == [char_list |-> <<>>, origin |-> <<>>]

Push(st, tok, i) ==
    [char_list |-> Append(st.char_list, tok), origin |-> Append(st.origin, i)]

\* char_list.extend(xs) for a list of strs xs
RECURSIVE Extend(_, _, _)
Extend(st, xs, i) ==
    IF xs = <<>> THEN st ELSE Extend(Push(st, xs[1], i), Tail(xs), i)

\* a str seen as the list of its one-character strs
Chars(s) == [k \in 1..Len(s) |-> <<s[k]>>]

\* lines 67-70: a seg whose UTF-8 length equals its length
AsciiBranchNoGuard(st, seg, i) ==
    LET seg_byte_len == Utf8Len(seg)
        st1 == IF /\ st.char_list # <<>>
                  /\ seg_byte_len >= 1
                  /\ ~IsSubstr(Last(st.char_list), NO_SPACE_AFTER)
               THEN Push(st, SPACE, i) ELSE st
    IN  Extend(st1, Chars(seg), i)

AsciiBranch(st, seg, i) ==
    LET seg_byte_len == Utf8Len(seg)
        st1 == IF /\ st.char_list # <<>>
                  /\ seg_byte_len > 1
                  /\ ~IsSubstr(Last(st.char_list), NO_SPACE_AFTER)
               THEN Push(st, SPACE, i) ELSE st
    IN  Extend(st1, Chars(seg), i)

\* lines 73-77 with line 68's test of the previous token applied here too
RECURSIVE PinyinLoopSpaceGuard(_, _, _)
PinyinLoopSpaceGuard(st, ps, i) ==
    IF ps = <<>> THEN st
    ELSE LET p == ps[1]
             st1 == IF ~IsSubstr(p, PUNCT)
                    THEN IF \/ st.char_list = <<>>
                            \/ /\ ~is_japanese(Last(st.char_list))
                               /\ ~IsSubstr(Last(st.char_list), NO_SPACE_AFTER)
                         THEN Push(st, SPACE, i) ELSE st
                    ELSE st
         IN  PinyinLoopSpaceGuard(Push(st1, p, i), Tail(ps), i)

\* lines 73-77: for p in seg_pinyin
RECURSIVE PinyinLoop(_, _, _)
PinyinLoop(st, ps, i) ==
    IF ps = <<>> THEN st
    ELSE LET p == ps[1]
             st1 == IF ~IsSubstr(p, PUNCT)
                    THEN IF st.char_list = <<>> \/ ~is_japanese(Last(st.char_list))
                         THEN Push(st, SPACE, i) ELSE st
                    ELSE st
         IN  PinyinLoop(Push(st1, p, i), Tail(ps), i)

RECURSIVE PinyinLoopSpaceAlways(_, _, _)
PinyinLoopSpaceAlways(st, ps, i) ==
    IF ps = <<>> THEN st
    ELSE LET p == ps[1]
             st1 == IF st.char_list = <<>> \/ ~is_japanese(Last(st.char_list))
                    THEN Push(st, SPACE, i) ELSE st
         IN  PinyinLoopSpaceAlways(Push(st1, p, i), Tail(ps), i)

\* lines 73-77 without the is_japanese test of line 75
RECURSIVE PinyinLoopKanaIgnored(_, _, _)
PinyinLoopKanaIgnored(st, ps, i) ==
    IF ps = <<>> THEN st
    ELSE LET p == ps[1]
             st1 == IF ~IsSubstr(p, PUNCT) THEN Push(st, SPACE, i) ELSE st
         IN  PinyinLoopKanaIgnored(Push(st1, p, i), Tail(ps), i)

ChineseBranchKanaIgnored(st, seg, i) == PinyinLoopKanaIgnored(st, lazy_pinyin(seg), i)

\* lines 71-77: polyphone and a seg of 3 bytes per character
ChineseBranchSpaceAlways(st, seg, i) == PinyinLoopSpaceAlways(st, lazy_pinyin(seg), i)

ChineseBranch(st, seg, i) == PinyinLoop(st, lazy_pinyin(seg), i)

\* lines 78-89: for c in seg
RECURSIVE OtherBranch(_, _, _)
OtherBranch(st, seg, i) ==
    IF seg = <<>> THEN st
    ELSE LET c == <<seg[1]>>
             st1 == IF seg[1] < 256 THEN Push(st, c, i)
                    ELSE IF is_japanese(c) THEN Push(st, c, i)
                    ELSE IF ~IsSubstr(c, PUNCT) THEN Extend(st, lazy_pinyin(c), i)
                    ELSE Push(st, c, i)
         IN  OtherBranch(st1, Tail(seg), i)

\* lines 65-89: one iteration of "for seg in text"; seg is text[i], one character
SegStep(st, seg, i, polyphone) ==
    LET seg_byte_len == Utf8Len(seg)
    IN  IF seg_byte_len = Len(seg) THEN AsciiBranch(st, seg, i)
        ELSE IF polyphone /\ seg_byte_len = 3 * Len(seg) THEN ChineseBranch(st, seg, i)
        ELSE OtherBranch(st, seg, i)

RECURSIVE SegLoop(_, _, _, _)
SegLoop(st, text, i, polyphone) ==
    IF i > Len(text) THEN st
    ELSE SegLoop(SegStep(st, <<text[i]>>, i, polyphone), text, i + 1, polyphone)

\* lines 61-90: the body of "for text in text_list" for one text
ConvertText(text, polyphone) == SegLoop(EmptyList, replace_quotes(text), 1, polyphone)

\* lines 47-91
convert_char_to_pinyin(text_list, polyphone) ==
    [n \in 1..Len(text_list) |-> ConvertText(text_list[n], polyphone).char_list]

\* the ghost origins of the tokens of convert_char_to_pinyin(text_list, ...)
convert_origin(text_list, polyphone) ==
    [n \in 1..Len(text_list) |-> ConvertText(text_list[n], polyphone).origin]

\* ------------------------------------------------------- vocabulary indexer

\* what a call gives back: a value, or the exception it raised
Returned(v) == [raised |-> "none", value |-> v]
Raised(e) == [raised |-> e, value |-> <<>>]

\* line 100 with vocab_char_map[c] in place of get_idx(c, 0)
get_idx_subscript(vocab_char_map, c) ==
    IF c \in DOMAIN vocab_char_map THEN Returned(vocab_char_map[c])
    ELSE Raised("KeyError")

\* lines 99-100: get_idx(c, 0), that is vocab_char_map.get(c, 0)
get_idx(vocab_char_map, c) ==
    IF c \in DOMAIN vocab_char_map THEN Returned(vocab_char_map[c])
    ELSE Returned(0)

SeqMax(lens) == IF lens = {} THEN 0 ELSE CHOOSE m \in lens : \A n \in lens : n <= m

\* torch.nn.utils.rnn.pad_sequence(..., batch_first=True) padding on the left
pad_sequence_left(tensors, padding_value) ==
    LET width == SeqMax({Len(tensors[b]) : b \in 1..Len(tensors)})
    IN  [b \in 1..Len(tensors) |->
            [j \in 1..width |->
                IF j > width - Len(tensors[b]) THEN tensors[b][j - (width - Len(tensors[b]))]
                ELSE padding_value]]

\* line 101: torch.nn.utils.rnn.pad_sequence(tensors, padding_value, batch_first=True)
pad_sequence(tensors, padding_value) ==
    LET width == SeqMax({Len(tensors[b]) : b \in 1..Len(tensors)})
    IN  [b \in 1..Len(tensors) |->
            [j \in 1..width |->
                IF j <= Len(tensors[b]) THEN tensors[b][j] ELSE padding_value]]

\* lines 99-100 with the table learning the tokens it does not hold
\* (vocab_char_map.setdefault(c, len(vocab_char_map)) in place of .get(c, 0))
RECURSIVE VocabLearning(_, _)
VocabLearning(vocab_char_map, tokens) ==
    IF tokens = <<>> THEN vocab_char_map
    ELSE VocabLearning(
             IF tokens[1] \in DOMAIN vocab_char_map THEN vocab_char_map
             ELSE vocab_char_map @@ (tokens[1] :> Cardinality(DOMAIN vocab_char_map)),
             Tail(tokens))

VocabAfterLearning(vocab_char_map, text) ==
    IF text = <<>> THEN vocab_char_map ELSE VocabLearning(vocab_char_map, text[1])

\* lines 99-100, 158-161: the table is handed over by reference and only read
\* (dict.get); after the call it is the table it was
VocabAfterIndexing(vocab_char_map, text) == vocab_char_map

\* lines 93-102
list_str_to_idx(text, vocab_char_map, padding_value) ==
    LET looked == [b \in 1..Len(text) |->
                      [j \in 1..Len(text[b]) |-> get_idx(vocab_char_map, text[b][j])]]
    IN  IF \E b \in 1..Len(text) : \E j \in 1..Len(text[b]) : looked[b][j].raised # "none"
        THEN Raised("KeyError")
        ELSE Returned(pad_sequence(
                 [b \in 1..Len(text) |->
                     [j \in 1..Len(text[b]) |-> looked[b][j].value]],
                 padding_value))

\* ------------------------------------------------------------- startup

\* os.getenv gives None for a variable that is not set
None == "<None>"

\* Python truthiness of an Optional[str]: "not x" holds of None and of ""
Truthy(x) == x # None /\ x # ""

\* line 28 with "and" in place of "or"
ConfigMissingBoth(model_path, vocab_file) == ~Truthy(model_path) /\ ~Truthy(vocab_file)

\* line 28: not ONNX_MODEL_PATH or not VOCAB_FILE
ConfigMissing(model_path, vocab_file) == ~Truthy(model_path) \/ ~Truthy(vocab_file)

\* the paths behind which the file system has a readable file
ReadablePaths == {"/models/F5_Preprocess.onnx", "/models/vocab.txt"}

ModelPaths == {None, "", "/models/F5_Preprocess.onnx", "/models/absent.onnx"}
VocabPaths == {None, "", "/models/vocab.txt", "/models/absent.txt"}

\* vocabulary files, as the lines "for char in f" yields (10 is "\n"):
\* " ", "a", "ni3", "，" with a final newline; "a", "ni3", "hao3" without one;
\* "a", "，", "a" (an entry written twice)
VocabFiles ==
    { << <<32, 10>>, <<97, 10>>, <<110, 105, 51, 10>>, <<65292, 10>> >>,
      << <<97, 10>>, <<110, 105, 51, 10>>, <<104, 97, 111, 51>> >>,
      << <<97, 10>>, <<65292, 10>>, <<97, 10>> >> }

\* Python: s[:-1]
DropLast(s) == SubSeq(s, 1, Len(s) - 1)

\* line 33: {char[:-1]: i for i, char in enumerate(f)}; a later line wins
LoadVocab(lines) ==
    [key \in {DropLast(lines[n]) : n \in 1..Len(lines)} |->
        SeqMax({n - 1 : n \in {m \in 1..Len(lines) : DropLast(lines[m]) = key}})]

\* ------------------------------------------------- inference orchestrator

\* torchaudio.transforms.Resample: ceil(new_freq * length / orig_freq) samples
Resample(frames, orig_freq, new_freq) ==
    (frames * new_freq + orig_freq - 1) \div orig_freq

\* lines 124-128: the number of samples of audio after loading and resampling
LoadedSamples(reference_audio) ==
    IF reference_audio.sr # SAMPLE_RATE
    THEN Resample(reference_audio.frames, reference_audio.sr, SAMPLE_RATE)
    ELSE reference_audio.frames

\* Python: len(re.findall(pattern, text)) for a pattern of literal characters:
\* the non-overlapping occurrences of the whole pattern, from the left
RECURSIVE CountFindall(_, _)
CountFindall(pattern, text) ==
    IF Len(text) < Len(pattern) THEN 0
    ELSE IF SubSeq(text, 1, Len(pattern)) = pattern
         THEN 1 + CountFindall(pattern, SubSeq(text, Len(pattern) + 1, Len(text)))
         ELSE CountFindall(pattern, Tail(text))

\* r"。，、；：？！"  (line 148)
zh_pause_punc == <<12290, 65292, 12289, 65307, 65306, 65311, 65281>>

\* lines 147-151
RefTextLen(ref_text, lang) ==
    IF lang = "zh"
    THEN Utf8Len(ref_text) + 3 * CountFindall(zh_pause_punc, ref_text)
    ELSE Utf8Len(ref_text)

\* lines 154-155 with the text length added in
MaxDurationWithText(samples, ref_text_len) == samples \div HOP_LENGTH + 1 + ref_text_len

\* lines 154-155: ref_audio_len, which is max_duration; the text length that
\* lines 147-151 computed is not used
MaxDuration(samples, ref_text_len) == samples \div HOP_LENGTH + 1

\* the engine, an opaque callable: output k of a run on these inputs
EngineOutputs(audio, text_ids, max_duration) ==
    [k \in 0..6 |-> [output |-> k, audio |-> audio, text_ids |-> text_ids,
                     max_duration |-> max_duration]]

\* lines 164-171 inside a loop that tries a second time when the run fails
OrtRunRetry(run_ok, audio, text_ids, max_duration) ==
    [raised |-> "none",
     value |-> EngineOutputs(audio, text_ids, max_duration),
     calls |-> IF run_ok THEN 1 ELSE 2]

\* lines 164-171: outputs = ort_session.run(out_names, {...}), called once
OrtRun(run_ok, audio, text_ids, max_duration) ==
    [raised |-> IF run_ok THEN "none" ELSE "InferenceError",
     value |-> IF run_ok THEN EngineOutputs(audio, text_ids, max_duration) ELSE <<>>,
     calls |-> 1]

\* lines 173-185: the schedule generator's two arrays
ScheduleGenerator ==
    [time_expand |-> [array |-> "time_expand", shape |-> <<1, 32, 256>>],
     delta_t |-> [array |-> "delta_t", shape |-> <<32>>]]

\* lines 188-197 with rope_cos and cat_mel_text exchanged
ResultTupleSwapped(outputs, time_expand, delta_t) ==
    [i \in 0..7 |->
        CASE i = 0 -> outputs[0]
          [] i = 1 -> outputs[1]
          [] i = 2 -> outputs[4]
          [] i = 3 -> time_expand
          [] i = 4 -> outputs[3]
          [] i = 5 -> outputs[2]
          [] i = 6 -> delta_t
          [] i = 7 -> outputs[6]]

\* lines 188-197: the result tuple, indexed from 0 as in Python
ResultTuple(outputs, time_expand, delta_t) ==
    [i \in 0..7 |->
        CASE i = 0 -> outputs[0]
          [] i = 1 -> outputs[3]
          [] i = 2 -> outputs[4]
          [] i = 3 -> time_expand
          [] i = 4 -> outputs[1]
          [] i = 5 -> outputs[2]
          [] i = 6 -> delta_t
          [] i = 7 -> outputs[6]]

\* pickle.dumps of a tuple: its length, then its items in order
pickle_dumps(t) ==
    LET n == Cardinality(DOMAIN t)
    IN  <<"TUPLE", n>> \o [k \in 1..n |-> t[k - 1]]

\* pickle.loads: the tuple back, indexed from 0
pickle_loads(bytes) == [i \in 0..(bytes[2] - 1) |-> bytes[i + 3]]

\* what one call of preprocess_text_and_audio did, for the checks: the
\* exception or the returned bytes, and how far the call got
Call(raised, value, sessions, runs, engine_in, tokens, ref_text_len) ==
    [raised |-> raised, value |-> value, sessions |-> sessions, runs |-> runs,
     engine_in |-> engine_in, tokens |-> tokens, ref_text_len |-> ref_text_len]

NoEngineIn == [reached |-> FALSE, audio |-> <<>>, text_ids |-> <<>>, max_duration |-> -1]

\* lines 104-200.  env: what the world outside decides during the call
\* (whether the session can be built, the element type the model expects,
\* whether the run succeeds).
preprocess_text_and_audio(reference_audio, ref_text, lang, env, model_path, vocab) ==
    IF ~reference_audio.decodable
    THEN Call("DecodeError", <<>>, 0, 0, NoEngineIn, <<>>, -1)
    ELSE IF ~(env.session_ok /\ model_path \in ReadablePaths)
    THEN Call("SessionError", <<>>, 0, 0, NoEngineIn, <<>>, -1)
    ELSE
    LET audio == [samples |-> LoadedSamples(reference_audio),
                  dtype |-> IF env.model_type = "tensor(float16)"
                            THEN "float16" ELSE "float32"]
        ref_text_len == RefTextLen(ref_text, lang)
        max_duration == MaxDuration(audio.samples, ref_text_len)
        tokens == convert_char_to_pinyin(<<ref_text>>, TRUE)
        text_ids == list_str_to_idx(tokens, vocab, -1)
        engine_in == [reached |-> TRUE, audio |-> audio, text_ids |-> text_ids.value,
                      max_duration |-> max_duration]
        run == OrtRun(env.run_ok, audio, text_ids.value, max_duration)
    IN  IF text_ids.raised # "none"
        THEN Call(text_ids.raised, <<>>, 1, 0, NoEngineIn, tokens, ref_text_len)
        ELSE IF run.raised # "none"
        THEN Call(run.raised, <<>>, 1, run.calls, engine_in, tokens, ref_text_len)
        ELSE Call("none",
                  pickle_dumps(ResultTuple(run.value, ScheduleGenerator.time_expand,
                                           ScheduleGenerator.delta_t)),
                  1, run.calls, engine_in, tokens, ref_text_len)

\* lines 202-206
handler(event, env, model_path, vocab) ==
    IF ~event.input.reference_audio.base64
    THEN Call("binascii.Error", <<>>, 0, 0, NoEngineIn, <<>>, -1)
    ELSE preprocess_text_and_audio(event.input.reference_audio, event.input.ref_text,
                                   event.input.lang, env, model_path, vocab)

\* ---------------------------------------------------- schedule generator
\* Lines 173-185 compute in float32. A number is held in fixed point, as the
\* integer nearest to its value times One; what a float32 operation rounds
\* away is a choice within the bound that the precision gives. An entry of
\* the embedding is held as the expression that produced it.

NSteps == 32
EmbDim == 256

One == 10^9

\* the spacing of float32 numbers in [1/2, 1) is 2^-24; a whole unit above it
Ulp32 == One \div 2^24 + 1

\* line 175 rounds at most four times per point on the way to time_step:
\* the argument of cos, cos itself, and the two additions that are not exact
WarpError == 4 * Ulp32

\* line 176: one subtraction of numbers below 1/16, spacing 2^-28
DiffError == Ulp32 \div 16 + 1

\* what the roundings of lines 175 and 176 amount to, at the first point, at
\* the points between, at the last point, and in a difference
Roundings ==
    [first : {-WarpError, 0, WarpError},
     mid   : {-WarpError, 0, WarpError},
     last  : {-WarpError, 0, WarpError},
     diff  : {-DiffError, 0, DiffError}]

NoRounding == [first |-> 0, mid |-> 0, last |-> 0, diff |-> 0]

RoundAt(rounding, i) ==
    IF i = 0 THEN rounding.first
    ELSE IF i = NSteps THEN rounding.last
    ELSE rounding.mid

\* cos(pi/2 * i/32) for i = 0..32, times One
CosTable ==
    <<1000000000, 998795456, 995184727, 989176510, 980785280, 970031253,
      956940336, 941544065, 923879533, 903989293, 881921264, 857728610,
      831469612, 803207531, 773010453, 740951125, 707106781, 671558955,
      634393284, 595699304, 555570233, 514102744, 471396737, 427555093,
      382683432, 336889853, 290284677, 242980180, 195090322, 146730474,
      98017140, 49067674, 0>>

\* line 174: torch.linspace(0, 1, n); the points i/32 are float32 numbers
Linspace(n) == [i \in 0..(n - 1) |-> i * (One \div (n - 1))]

\* line 175: torch.cos(torch.pi * 0.5 * x) for a point x of the grid
CosHalfPi(x) == CosTable[x \div (One \div NSteps) + 1]

\* line 175 without the "- 1"
WarpNoOffset(x, cos_x, err) == x + (-1) * (cos_x + x) + err

\* line 175: t + (-1.0) * (cos(pi/2 t) - 1 + t), one point
Warp(x, cos_x, err) == x + (-1) * (cos_x - One + x) + err

\* line 175, the whole tensor
TimeStep(t, rounding) ==
    [i \in DOMAIN t |-> Warp(t[i], CosHalfPi(t[i]), RoundAt(rounding, i))]

\* line 176: torch.diff
Diff(time_step, err) ==
    [i \in 0..(Cardinality(DOMAIN time_step) - 2) |->
        time_step[i + 1] - time_step[i] + err]

NoRate == [log_of |-> 0, den |-> 0]
NoFreq == [scale |-> 0, k |-> 0, rate |-> NoRate]

\* an entry of torch.zeros that no statement has assigned
ZeroEntry == [written |-> FALSE, fn |-> "none", t |-> 0, at |-> 0, f |-> NoFreq]

\* line 178: torch.zeros((1, 32, 256))
Zeros(batch, rows, cols) ==
    [b \in 0..(batch - 1) |-> [i \in 0..(rows - 1) |-> [j \in 0..(cols - 1) |-> ZeroEntry]]]

\* line 180: math.log(10000) / (half_dim - 1)
EmbFactorScalar(half_dim) == [log_of |-> 10000, den |-> half_dim - 1]

\* line 181: 1000.0 * torch.exp(torch.arange(half_dim) * -emb_factor);
\* entry k stands for scale * exp(-k * ln(log_of) / den)
EmbFactorVector(half_dim, emb_factor) ==
    [k \in 0..(half_dim - 1) |-> [scale |-> 1000, k |-> k, rate |-> emb_factor]]

\* line 184 reading the point after the row's own
EmbOfNextPoint(time_step, i, emb_factor) ==
    [k \in DOMAIN emb_factor |->
        [t |-> time_step[i + 1], at |-> i + 1, f |-> emb_factor[k]]]

\* line 184: emb = time_step[i] * emb_factor; "at" is a ghost, the index of
\* the point that was read
Emb(time_step, i, emb_factor) ==
    [k \in DOMAIN emb_factor |->
        [t |-> time_step[i], at |-> i, f |-> emb_factor[k]]]

EntryOf(fn, e) == [written |-> TRUE, fn |-> fn, t |-> e.t, at |-> e.at, f |-> e.f]

\* line 185 with the halves the other way round
CatCosSin(emb) ==
    LET n == Cardinality(DOMAIN emb)
    IN  [j \in 0..(2 * n - 1) |->
            IF j < n THEN EntryOf("cos", emb[j]) ELSE EntryOf("sin", emb[j - n])]

\* line 185: torch.cat((emb.sin(), emb.cos()), dim=-1)
CatSinCos(emb) ==
    LET n == Cardinality(DOMAIN emb)
    IN  [j \in 0..(2 * n - 1) |->
            IF j < n THEN EntryOf("sin", emb[j]) ELSE EntryOf("cos", emb[j - n])]

\* line 185: time_expand[:, i, :] = row
AssignRow(time_expand, i, row) ==
    [b \in DOMAIN time_expand |-> [time_expand[b] EXCEPT ![i] = row]]

\* ----------------------------------------------------------- authentication
\* app/api/deps.py with app/core/security.py. A User is held as its id, the
\* user table as a function from the ids of its rows, the api-key table as a
\* function from the key column (unique) to the rest of the row. Every
\* statement on the session is taken to succeed.

\* "return None" for an Optional[User]
NoUser == 0

\* expires_at = None, last_used_at = None
NoTime == 0

UserIds == {1, 2}

\* the keys a client presents, None and "" apart
PresentedKeys == {"sk_live", "sk_test"}

\* hashlib.sha256(api_key.encode()).hexdigest()
Sha256Table ==
    ("" :> "e3b0c44298fc1c149afbf4c8996fb92427ae41e4649b934ca495991b7852b855") @@
    ("sk_live" :> "5bf528ec40786ad98c47828c45ba2b7f333cd2e57cd44f79d588cab99ddeac1c") @@
    ("sk_test" :> "12b2820cf1639904311da5771de1e5bb65c77073fdc7c555df395942df42896b")

\* security.py line 49 with the key returned as it came
hash_api_key_plain(api_key) == api_key

\* security.py lines 40-49
hash_api_key(api_key) == Sha256Table[api_key]

\* a token as oauth2_scheme and jwt.decode see it: absent (None), present and
\* rejected by jwt.decode (JWTError), or decoded with sub an id or None
AbsentToken == [present |-> FALSE, decodes |-> FALSE, sub |-> NoUser]
BadToken == [present |-> TRUE, decodes |-> FALSE, sub |-> NoUser]
TokenFor(sub) == [present |-> TRUE, decodes |-> TRUE, sub |-> sub]
Tokens == {AbsentToken, BadToken} \cup {TokenFor(sub) : sub \in UserIds \cup {NoUser}}

\* session.get(User, id) finds an active user (deps.py lines 46-47, 93-94)
ActiveUser(users, id) == id \in DOMAIN users /\ users[id].is_active

\* deps.py lines 22-50
get_current_user(users, token) ==
    IF ~token.present THEN NoUser
    ELSE IF ~token.decodes THEN NoUser
    ELSE IF token.sub = NoUser THEN NoUser
    ELSE IF ~ActiveUser(users, token.sub) THEN NoUser
    ELSE token.sub

\* deps.py lines 52-99: the user returned and the api-key table as the call
\* leaves it
get_current_user_from_api_key(users, api_keys, api_key, now) ==
    IF ~Truthy(api_key) THEN [user |-> NoUser, api_keys |-> api_keys]
    ELSE
    LET hashed_key == hash_api_key(api_key)
    IN  IF hashed_key \notin DOMAIN api_keys
        THEN [user |-> NoUser, api_keys |-> api_keys]
        ELSE
        LET db_api_key == api_keys[hashed_key]
            committed == [api_keys EXCEPT ![hashed_key].last_used_at = now]
        IN  IF ~db_api_key.is_active
            THEN [user |-> NoUser, api_keys |-> api_keys]
            ELSE IF db_api_key.expires_at # NoTime /\ db_api_key.expires_at < now
            THEN [user |-> NoUser, api_keys |-> api_keys]
            ELSE IF ~ActiveUser(users, db_api_key.user_id)
            THEN [user |-> NoUser, api_keys |-> committed]
            ELSE [user |-> db_api_key.user_id, api_keys |-> committed]

\* deps.py lines 101-123
get_current_user_with_api_key(user_from_token, user_from_api_key) ==
    IF user_from_token # NoUser
    THEN [raised |-> "none", status_code |-> 200, user |-> user_from_token]
    ELSE IF user_from_api_key # NoUser
    THEN [raised |-> "none", status_code |-> 200, user |-> user_from_api_key]
    ELSE [raised |-> "HTTPException", status_code |-> 401, user |-> NoUser]

\* ---------------------------------------------------------- voice processor
\* app/services/voice_processor.py lines 40-94 with app/models/voice.py. Every
\* session.commit() and every awaited Redis call either goes through or
\* raises; an await can also be cancelled, which raises CancelledError, a
\* BaseException that "except Exception" does not catch.

\* voice.py lines 7-12
VoiceStatus == {"pending", "processing", "ready", "failed"}

VoiceIds == {1, 2}

\* voice.py lines 40-43
cache_key(id) == <<"voice", id, "cache">>

\* voice_processor.py line 55: str(self.cache_dir / "example.pkl")
ExampleCache == "voice_cache/example.pkl"

\* voice_processor.py lines 83-87
CacheData(voice_obj) ==
    [voice_id |-> voice_obj.id, cache_path |-> voice_obj.cache_file_path,
     processed_data |-> "mock_processed_data"]

\* voices.py lines 63-65: the row as the endpoint committed it
NewVoice(id) == [id |-> id, status |-> "pending", cache_file_path |-> None]

\* the entries Redis may hold before the call: none, or one left for the id
RedisStores(id) ==
    {<<>>,
     (cache_key(id) :> [voice_id |-> id, cache_path |-> "voice_cache/old.pkl",
                       processed_data |-> "mock_processed_data"])}

\* ------------------------------------------------------------------ inputs

RECURSIVE SeqsUpTo(_, _)
SeqsUpTo(S, n) ==
    IF n = 0 THEN {<<>>}
    ELSE LET prev == SeqsUpTo(S, n - 1)
         IN  prev \cup {Append(s, x) : s \in {t \in prev : Len(t) = n - 1}, x \in S}

\* a, space, ;, '  |  e-acute (2 bytes, ord < 256), Cyrillic ya (2 bytes)  |
\* 你, 的, full-width comma, hiragana a (3 bytes)  |  an emoji (4 bytes)
Alphabet == {97, 32, 59, 39, 233, 1103, 20320, 30340, 65292, 12354, 128512}

\* "你好，世界" and the text that line 52's mangled literal matches
NiHaoShiJie == <<20320, 22909, 65292, 19990, 30028>>
LongTexts == {NiHaoShiJie, MANGLED, <<97>> \o MANGLED \o <<59>>}

Texts == SeqsUpTo(Alphabet, MaxLen) \cup LongTexts

\* tokens for list_str_to_idx on its own: "a", "ni3", "，"
IdxTokens == {<<97>>, <<110, 105, 51>>, <<65292>>}

\* batches of one or two token sequences
IdxBatches ==
    LET ts == SeqsUpTo(IdxTokens, MaxTokens)
    IN  {<<t>> : t \in ts} \cup {<<t, u>> : t \in ts, u \in ts}

\* vocabulary tables: any part of IdxTokens, with IDs as enumerate gives them
IdxVocabs == UNION {[D -> 0..2] : D \in SUBSET IdxTokens}

\* reference_audio payloads: not base64, base64 of something that is no
\* audio, and audio of some sample rate and number of samples per channel
NoAudio == [base64 |-> FALSE, decodable |-> FALSE, sr |-> 0, frames |-> 0]
Audios ==
    {NoAudio,
     [base64 |-> TRUE, decodable |-> FALSE, sr |-> 0, frames |-> 0],
     [base64 |-> TRUE, decodable |-> TRUE, sr |-> 24000, frames |-> 24000],
     [base64 |-> TRUE, decodable |-> TRUE, sr |-> 24000, frames |-> 255],
     [base64 |-> TRUE, decodable |-> TRUE, sr |-> 48000, frames |-> 511]}

\* "a;", "你好，世界" and "。，、；：？！"
RequestTexts == {<<97, 59>>, NiHaoShiJie, zh_pause_punc}

Events ==
    {[input |-> [reference_audio |-> a, ref_text |-> t, lang |-> l]] :
        a \in Audios, t \in RequestTexts, l \in {"zh", "en"}}

NoEvent == [input |-> [reference_audio |-> NoAudio, ref_text |-> <<>>, lang |-> "none"]]

Envs == [session_ok : BOOLEAN, run_ok : BOOLEAN,
         model_type : {"tensor(float)", "tensor(float16)"}]

NoEnv == [session_ok |-> FALSE, run_ok |-> FALSE, model_type |-> "none"]

NoCall == Call("none", <<>>, 0, 0, NoEngineIn, <<>>, -1)

\* the user table: user 1 absent, inactive or active, user 2 inactive or active
UserTables ==
    {u \in UNION {[D -> [is_active : BOOLEAN]] : D \in SUBSET UserIds} : 2 \in DOMAIN u}

\* what the key column of a row may hold: the digest of a key, as
\* api_keys.py line 34 stores it, or a key as it was presented
StoredKeys == {Sha256Table["sk_live"], Sha256Table["sk_test"], "sk_live"}

\* the user_id column: sk_live was issued to user 1, sk_test to user 2
KeyOwner(stored) == IF stored = Sha256Table["sk_test"] THEN 2 ELSE 1

ApiKeyRows(stored) ==
    [user_id : {KeyOwner(stored)}, is_active : BOOLEAN,
     expires_at : {NoTime} \cup (1..MaxClock), last_used_at : {NoTime}]

ApiKeyTables ==
    {tbl \in UNION {[D -> UNION {ApiKeyRows(k) : k \in D}] :
                        D \in {K \in SUBSET StoredKeys : Cardinality(K) <= MaxKeys}} :
        \A k \in DOMAIN tbl : tbl[k] \in ApiKeyRows(k)}

\* the X-API-Key header: absent, empty, or a key
ApiKeyHeaders == {None, ""} \cup PresentedKeys

NoAuthRequest == [token |-> AbsentToken, api_key |-> None, now |-> NoTime]
NoAuthResult ==
    [user_from_token |-> NoUser, user_from_api_key |-> NoUser,
     response |-> [raised |-> "none", status_code |-> 0, user |-> NoUser]]

\* ------------------------------------------------------------------- state

VARIABLES
    seg_pc,           \* segmenter call: "idle" | "called" | "returned"
    text_list,        \* argument of convert_char_to_pinyin
    polyphone,        \* argument of convert_char_to_pinyin
    final_text_list,  \* its return value
    token_origin      \* ghost: origin of each returned token

segVars == <<seg_pc, text_list, polyphone, final_text_list, token_origin>>

VARIABLES
    idx_pc,           \* indexer call: "idle" | "called" | "returned"
    idx_text,         \* argument text of list_str_to_idx
    idx_vocab,        \* argument vocab_char_map of list_str_to_idx
    idx_result        \* what the call gave back

idxVars == <<idx_pc, idx_text, idx_vocab, idx_result>>

VARIABLES
    pc,               \* "start" | "checked" | "vocab_loaded" | "configured" |
                      \* "serving" | "aborted": how far the module body got
    ONNX_MODEL_PATH,  \* os.getenv("F5_Preprocess")
    VOCAB_FILE,       \* os.getenv("vocab_file")
    vocab_lines,      \* the lines of the vocabulary file
    vocab_loaded,     \* VOCAB_CHAR_MAP is bound
    VOCAB_CHAR_MAP,   \* the vocabulary table
    startup_error,    \* the exception that ended the module body, or "none"
    registered,       \* runpod.serverless.start has the handler
    requests,         \* events handled so far
    sessions_built,   \* InferenceSession objects constructed so far
    last_event,       \* the event of the latest request
    last_env,         \* what the world decided during the latest request
    last              \* what the latest call of handler did

procVars == <<pc, ONNX_MODEL_PATH, VOCAB_FILE, vocab_lines, vocab_loaded,
              VOCAB_CHAR_MAP, startup_error, registered, requests,
              sessions_built, last_event, last_env, last>>

VARIABLES
    sched_pc,         \* the next line of 174-185 to run, "loop", "done" or "idle"
    rounding,         \* what the float32 roundings of this run amount to
    t_linspace,       \* line 174: t
    time_step,        \* line 175
    delta_t,          \* line 176
    time_expand,      \* line 178, rows assigned by line 185
    half_dim,         \* line 179
    emb_factor,       \* line 180, rebound by line 181
    loop_i            \* the next i of line 183's range(32)

schedVars == <<sched_pc, rounding, t_linspace, time_step, delta_t, time_expand, half_dim,
               emb_factor, loop_i>>

VARIABLES
    auth_pc,          \* "idle" | "waiting" | "answered"
    db_users,         \* the user table
    db_api_keys,      \* the api-key table
    utcnow,           \* what datetime.utcnow() reads
    keys_before,      \* ghost: the api-key table when the latest request came
    auth_request,     \* the latest request's credentials and its time
    auth_result       \* what the three dependencies gave for it

authVars == <<auth_pc, db_users, db_api_keys, utcnow, keys_before, auth_request,
              auth_result>>

VARIABLES
    voice_pc,         \* the next statement of process_voice, "returned",
                      \* "raised" or "idle"
    voice,            \* the Voice object in memory
    voice_row,        \* the voice's row as last committed
    redis_client,     \* self.redis is set
    redis_store,      \* the entries Redis holds
    voice_exc,        \* the exception in flight, or "none"
    committed,        \* ghost: the statuses committed so far, in order
    commits_failed    \* ghost: commits that raised during the call

voiceVars == <<voice_pc, voice, voice_row, redis_client, redis_store, voice_exc,
               committed, commits_failed>>

vars == <<segVars, idxVars, procVars, schedVars, authVars, voiceVars>>

VoiceIdle ==
    /\ voice_pc = "idle"
    /\ voice = NewVoice(0)
    /\ voice_row = NewVoice(0)
    /\ redis_client = FALSE
    /\ redis_store = <<>>
    /\ voice_exc = "none"
    /\ committed = <<>>
    /\ commits_failed = 0

AuthIdle ==
    /\ auth_pc = "idle"
    /\ db_users = <<>>
    /\ db_api_keys = <<>>
    /\ utcnow = NoTime
    /\ keys_before = <<>>
    /\ auth_request = NoAuthRequest
    /\ auth_result = NoAuthResult

SchedIdle ==
    /\ sched_pc = "idle"
    /\ rounding = NoRounding
    /\ t_linspace = <<>>
    /\ time_step = <<>>
    /\ delta_t = <<>>
    /\ time_expand = <<>>
    /\ half_dim = 0
    /\ emb_factor = <<>>
    /\ loop_i = 0

ProcIdle ==
    /\ pc = "idle"
    /\ ONNX_MODEL_PATH = None
    /\ VOCAB_FILE = None
    /\ vocab_lines = <<>>
    /\ vocab_loaded = FALSE
    /\ VOCAB_CHAR_MAP = <<>>
    /\ startup_error = "none"
    /\ registered = FALSE
    /\ requests = 0
    /\ sessions_built = 0
    /\ last_event = NoEvent
    /\ last_env = NoEnv
    /\ last = NoCall

SegIdle ==
    /\ seg_pc = "idle"
    /\ text_list = <<>>
    /\ polyphone = TRUE
    /\ final_text_list = <<>>
    /\ token_origin = <<>>

IdxIdle ==
    /\ idx_pc = "idle"
    /\ idx_text = <<>>
    /\ idx_vocab = <<>>
    /\ idx_result = Returned(<<>>)

\* ------------------------------------- the segmenter as a called function

SegInit ==
    /\ seg_pc = "called"
    /\ text_list \in {<<t>> : t \in Texts}
    /\ polyphone \in BOOLEAN
    /\ final_text_list = <<>>
    /\ token_origin = <<>>
    /\ IdxIdle
    /\ ProcIdle
    /\ SchedIdle
    /\ AuthIdle
    /\ VoiceIdle

SegReturn ==
    /\ seg_pc = "called"
    /\ seg_pc' = "returned"
    /\ final_text_list' = convert_char_to_pinyin(text_list, polyphone)
    /\ token_origin' = convert_origin(text_list, polyphone)
    /\ UNCHANGED <<text_list, polyphone, idxVars, procVars, schedVars, authVars, voiceVars>>

SegNext == SegReturn

SpecSeg == SegInit /\ [][SegNext]_vars

\* --------------------------------------- the indexer as a called function

IdxInit ==
    /\ idx_pc = "called"
    /\ idx_text \in IdxBatches
    /\ idx_vocab \in IdxVocabs
    /\ idx_result = Returned(<<>>)
    /\ SegIdle
    /\ ProcIdle
    /\ SchedIdle
    /\ AuthIdle
    /\ VoiceIdle

IdxReturn ==
    /\ idx_pc = "called"
    /\ idx_pc' = "returned"
    /\ idx_result' = list_str_to_idx(idx_text, idx_vocab, -1)
    /\ UNCHANGED <<idx_text, idx_vocab, segVars, procVars, schedVars, authVars, voiceVars>>

IdxNext == IdxReturn

SpecIdx == IdxInit /\ [][IdxNext]_vars

\* ------------------------------------- the schedule generator, line by line

SchedInit ==
    /\ sched_pc = "174"
    /\ rounding \in Roundings
    /\ t_linspace = <<>>
    /\ time_step = <<>>
    /\ delta_t = <<>>
    /\ time_expand = <<>>
    /\ half_dim = 0
    /\ emb_factor = <<>>
    /\ loop_i = 0
    /\ SegIdle
    /\ IdxIdle
    /\ ProcIdle
    /\ AuthIdle
    /\ VoiceIdle

Line174 ==
    /\ sched_pc = "174"
    /\ t_linspace' = Linspace(NSteps + 1)
    /\ sched_pc' = "175"
    /\ UNCHANGED <<rounding, time_step, delta_t, time_expand, half_dim, emb_factor,
                   loop_i, segVars, idxVars, procVars, authVars, voiceVars>>

Line175 ==
    /\ sched_pc = "175"
    /\ time_step' = TimeStep(t_linspace, rounding)
    /\ sched_pc' = "176"
    /\ UNCHANGED <<rounding, t_linspace, delta_t, time_expand, half_dim, emb_factor,
                   loop_i, segVars, idxVars, procVars, authVars, voiceVars>>

Line176 ==
    /\ sched_pc = "176"
    /\ delta_t' = Diff(time_step, rounding.diff)
    /\ sched_pc' = "178"
    /\ UNCHANGED <<rounding, t_linspace, time_step, time_expand, half_dim, emb_factor,
                   loop_i, segVars, idxVars, procVars, authVars, voiceVars>>

Line178 ==
    /\ sched_pc = "178"
    /\ time_expand' = Zeros(1, NSteps, EmbDim)
    /\ sched_pc' = "179"
    /\ UNCHANGED <<rounding, t_linspace, time_step, delta_t, half_dim, emb_factor,
                   loop_i, segVars, idxVars, procVars, authVars, voiceVars>>

Line179 ==
    /\ sched_pc = "179"
    /\ half_dim' = EmbDim \div 2
    /\ sched_pc' = "180"
    /\ UNCHANGED <<rounding, t_linspace, time_step, delta_t, time_expand, emb_factor,
                   loop_i, segVars, idxVars, procVars, authVars, voiceVars>>

Line180 ==
    /\ sched_pc = "180"
    /\ emb_factor' = EmbFactorScalar(half_dim)
    /\ sched_pc' = "181"
    /\ UNCHANGED <<rounding, t_linspace, time_step, delta_t, time_expand, half_dim,
                   loop_i, segVars, idxVars, procVars, authVars, voiceVars>>

Line181 ==
    /\ sched_pc = "181"
    /\ emb_factor' = EmbFactorVector(half_dim, emb_factor)
    /\ loop_i' = 0
    /\ sched_pc' = "loop"
    /\ UNCHANGED <<rounding, t_linspace, time_step, delta_t, time_expand, half_dim,
                   segVars, idxVars, procVars, authVars, voiceVars>>

\* lines 183-185: one pass of the loop body
LoopBody ==
    /\ sched_pc = "loop"
    /\ loop_i < NSteps
    /\ time_expand' = AssignRow(time_expand, loop_i,
                                CatSinCos(Emb(time_step, loop_i, emb_factor)))
    /\ loop_i' = loop_i + 1
    /\ UNCHANGED <<sched_pc, rounding, t_linspace, time_step, delta_t, half_dim, emb_factor,
                   segVars, idxVars, procVars, authVars, voiceVars>>

\* line 183: range(32) is used up
LoopExit ==
    /\ sched_pc = "loop"
    /\ loop_i = NSteps
    /\ sched_pc' = "done"
    /\ UNCHANGED <<rounding, t_linspace, time_step, delta_t, time_expand, half_dim, emb_factor,
                   loop_i, segVars, idxVars, procVars, authVars, voiceVars>>

SchedNext ==
    \/ Line174
    \/ Line175
    \/ Line176
    \/ Line178
    \/ Line179
    \/ Line180
    \/ Line181
    \/ LoopBody
    \/ LoopExit

SpecSched == SchedInit /\ [][SchedNext]_vars

\* ----------------------------------- the authentication of a request

AuthInit ==
    /\ auth_pc = "waiting"
    /\ db_users \in UserTables
    /\ db_api_keys \in ApiKeyTables
    /\ utcnow = 1
    /\ keys_before = db_api_keys
    /\ auth_request = NoAuthRequest
    /\ auth_result = NoAuthResult
    /\ SegIdle
    /\ IdxIdle
    /\ ProcIdle
    /\ SchedIdle
    /\ VoiceIdle

\* one request to an endpoint that depends on get_current_user_with_api_key:
\* both of its dependencies are resolved, then the function itself
Authenticate ==
    /\ auth_pc \in {"waiting", "answered"}
    /\ \E token \in Tokens, api_key \in ApiKeyHeaders :
          LET user_from_token == get_current_user(db_users, token)
              from_api_key == get_current_user_from_api_key(db_users, db_api_keys,
                                                            api_key, utcnow)
          IN  /\ auth_request' = [token |-> token, api_key |-> api_key, now |-> utcnow]
              /\ keys_before' = db_api_keys
              /\ db_api_keys' = from_api_key.api_keys
              /\ auth_result' =
                    [user_from_token |-> user_from_token,
                     user_from_api_key |-> from_api_key.user,
                     response |-> get_current_user_with_api_key(user_from_token,
                                                                from_api_key.user)]
    /\ auth_pc' = "answered"
    /\ UNCHANGED <<db_users, utcnow, segVars, idxVars, procVars, schedVars, voiceVars>>

\* time passes
Tick ==
    /\ auth_pc \in {"waiting", "answered"}
    /\ utcnow < MaxClock
    /\ utcnow' = utcnow + 1
    /\ UNCHANGED <<auth_pc, db_users, db_api_keys, keys_before, auth_request,
                   auth_result, segVars, idxVars, procVars, schedVars, voiceVars>>

AuthNext == Authenticate \/ Tick

SpecAuth == AuthInit /\ [][AuthNext]_vars

\* --------------------------------------------- process_voice, step by step

VoiceInit ==
    /\ voice_pc = "50"
    /\ voice \in {NewVoice(id) : id \in VoiceIds}
    /\ voice_row = voice
    /\ redis_client \in BOOLEAN
    /\ redis_store \in RedisStores(voice.id)
    /\ voice_exc = "none"
    /\ committed = <<"pending">>
    /\ commits_failed = 0
    /\ SegIdle
    /\ IdxIdle
    /\ ProcIdle
    /\ SchedIdle
    /\ AuthIdle

\* session.add(voice); session.commit() with voice as obj: the row takes the
\* object's values, or the commit raises, the session rolls back and the
\* object is back at the row's values; next is where a commit that went
\* through leads
Commit(obj, next) ==
    \/ /\ voice_row' = obj
       /\ voice' = obj
       /\ committed' = Append(committed, obj.status)
       /\ voice_pc' = next
       /\ UNCHANGED <<voice_exc, commits_failed>>
    \/ /\ voice' = voice_row
       /\ commits_failed' = commits_failed + 1
       /\ voice_exc' = "Exception"
       /\ voice_pc' = IF next = "71" THEN "raised" ELSE "67"
       /\ UNCHANGED <<voice_row, committed>>

\* lines 50-52
CommitProcessing ==
    /\ voice_pc = "50"
    /\ Commit([voice EXCEPT !.status = "processing"], "55")
    /\ UNCHANGED <<redis_client, redis_store, segVars, idxVars, procVars, schedVars,
                   authVars>>

\* lines 55-56
MockProcessing ==
    /\ voice_pc = "55"
    /\ voice' = [voice EXCEPT !.cache_file_path = ExampleCache]
    /\ voice_pc' = "59"
    /\ UNCHANGED <<voice_row, redis_client, redis_store, voice_exc, committed,
                   commits_failed, segVars, idxVars, procVars, schedVars, authVars>>

\* lines 59-61
CommitReady ==
    /\ voice_pc = "59"
    /\ Commit([voice EXCEPT !.status = "ready"], "64")
    /\ UNCHANGED <<redis_client, redis_store, segVars, idxVars, procVars, schedVars,
                   authVars>>

\* line 64 with lines 73-94: init_redis, then redis.set
CacheVoice ==
    /\ voice_pc = "64"
    /\ \/ \* both awaits go through
          /\ redis_client' = TRUE
          /\ redis_store' = [k \in DOMAIN redis_store \cup {cache_key(voice.id)} |->
                                IF k = cache_key(voice.id) THEN CacheData(voice)
                                ELSE redis_store[k]]
          /\ voice_pc' = "returned"
          /\ UNCHANGED voice_exc
       \/ \* aioredis.from_url raises (lines 27-32)
          /\ ~redis_client
          /\ voice_exc' = "Exception"
          /\ voice_pc' = "67"
          /\ UNCHANGED <<redis_client, redis_store>>
       \/ \* redis.set raises (line 90)
          /\ redis_client' = TRUE
          /\ voice_exc' = "Exception"
          /\ voice_pc' = "67"
          /\ UNCHANGED redis_store
       \/ \* the task is cancelled while it awaits redis.set
          /\ redis_client' = TRUE
          /\ voice_exc' = "CancelledError"
          /\ voice_pc' = "raised"
          /\ UNCHANGED redis_store
    /\ UNCHANGED <<voice, voice_row, committed, commits_failed, segVars, idxVars,
                   procVars, schedVars, authVars>>

\* lines 66-71
HandleException ==
    /\ voice_pc = "67"
    /\ Commit([voice EXCEPT !.status = "failed"], "71")
    /\ UNCHANGED <<redis_client, redis_store, segVars, idxVars, procVars, schedVars,
                   authVars>>

\* line 71
Reraise ==
    /\ voice_pc = "71"
    /\ voice_pc' = "raised"
    /\ UNCHANGED <<voice, voice_row, redis_client, redis_store, voice_exc, committed,
                   commits_failed, segVars, idxVars, procVars, schedVars, authVars>>

VoiceNext ==
    \/ CommitProcessing
    \/ MockProcessing
    \/ CommitReady
    \/ CacheVoice
    \/ HandleException
    \/ Reraise

SpecVoice == VoiceInit /\ [][VoiceNext]_vars

\* ------------------------------------------------------------ the process

\* lines 17-26: the environment is read
Init ==
    /\ pc = "start"
    /\ ONNX_MODEL_PATH \in ModelPaths
    /\ VOCAB_FILE \in VocabPaths
    /\ vocab_lines \in VocabFiles
    /\ vocab_loaded = FALSE
    /\ VOCAB_CHAR_MAP = <<>>
    /\ startup_error = "none"
    /\ registered = FALSE
    /\ requests = 0
    /\ sessions_built = 0
    /\ last_event = NoEvent
    /\ last_env = NoEnv
    /\ last = NoCall
    /\ SegIdle
    /\ IdxIdle
    /\ SchedIdle
    /\ AuthIdle
    /\ VoiceIdle

\* lines 28-29
CheckConfig ==
    /\ pc = "start"
    /\ IF ConfigMissing(ONNX_MODEL_PATH, VOCAB_FILE)
       THEN pc' = "aborted" /\ startup_error' = "ValueError"
       ELSE pc' = "checked" /\ startup_error' = startup_error
    /\ UNCHANGED <<ONNX_MODEL_PATH, VOCAB_FILE, vocab_lines, vocab_loaded,
                   VOCAB_CHAR_MAP, registered, requests, sessions_built,
                   last_event, last_env, last, segVars, idxVars, schedVars, authVars, voiceVars>>

\* lines 32-33
OpenVocab ==
    /\ pc = "checked"
    /\ IF VOCAB_FILE \in ReadablePaths
       THEN /\ pc' = "vocab_loaded"
            /\ vocab_loaded' = TRUE
            /\ VOCAB_CHAR_MAP' = LoadVocab(vocab_lines)
            /\ startup_error' = startup_error
       ELSE /\ pc' = "aborted"
            /\ startup_error' = "OSError"
            /\ UNCHANGED <<vocab_loaded, VOCAB_CHAR_MAP>>
    /\ UNCHANGED <<ONNX_MODEL_PATH, VOCAB_FILE, vocab_lines, registered, requests,
                   sessions_built, last_event, last_env, last, segVars, idxVars, schedVars, authVars, voiceVars>>

\* lines 36-45: SESSION_OPTS is filled in and the seed set; no session is built
ConfigureSessionOptions ==
    /\ pc = "vocab_loaded"
    /\ pc' = "configured"
    /\ UNCHANGED <<ONNX_MODEL_PATH, VOCAB_FILE, vocab_lines, vocab_loaded,
                   VOCAB_CHAR_MAP, startup_error, registered, requests,
                   sessions_built, last_event, last_env, last, segVars, idxVars, schedVars, authVars, voiceVars>>

\* line 209
StartServerless ==
    /\ pc = "configured"
    /\ pc' = "serving"
    /\ registered' = TRUE
    /\ UNCHANGED <<ONNX_MODEL_PATH, VOCAB_FILE, vocab_lines, vocab_loaded,
                   VOCAB_CHAR_MAP, startup_error, requests, sessions_built,
                   last_event, last_env, last, segVars, idxVars, schedVars, authVars, voiceVars>>

\* lines 202-206, with lines 104-200: one event handled from start to end
HandleRequest ==
    /\ pc = "serving"
    /\ registered
    /\ requests < MaxRequests
    /\ \E event \in Events, env \in Envs :
          LET call == handler(event, env, ONNX_MODEL_PATH, VOCAB_CHAR_MAP)
          IN  /\ last' = call
              /\ last_event' = event
              /\ last_env' = env
              /\ sessions_built' = sessions_built + call.sessions
              /\ VOCAB_CHAR_MAP' = VocabAfterIndexing(VOCAB_CHAR_MAP, call.tokens)
    /\ requests' = requests + 1
    /\ UNCHANGED <<pc, ONNX_MODEL_PATH, VOCAB_FILE, vocab_lines, vocab_loaded,
                   startup_error, registered, segVars, idxVars, schedVars, authVars, voiceVars>>

Next ==
    \/ CheckConfig
    \/ OpenVocab
    \/ ConfigureSessionOptions
    \/ StartServerless
    \/ HandleRequest

Spec == Init /\ [][Next]_vars

\* ------------------------------------------------------ segmenter claims

SegText == text_list[1]
SegOut == final_text_list[1]
SegOrigin == token_origin[1]

IsAscii(t) == \A i \in 1..Len(t) : t[i] < 128

PunctSet == {PUNCT[k] : k \in 1..Len(PUNCT)}
HanSet == DOMAIN PinyinTable

\* the text is made of Chinese characters and CJK punctuation only
AllChinese(t) == t # <<>> /\ \A i \in 1..Len(t) : t[i] \in HanSet \cup PunctSet

\* a syllable that ends in a tone digit 1..5
HasToneDigit(tok) == tok # <<>> /\ Last(tok) \in 49..53

\* every ';' replaced by ','
SemiToComma(t) == [i \in 1..Len(t) |-> <<IF t[i] = 59 THEN 44 ELSE t[i]>>]

MangledAt(t) == {k \in 1..(Len(t) - Len(MANGLED) + 1) :
                    SubSeq(t, k, k + Len(MANGLED) - 1) = MANGLED}

\* C5 as stated: for every pure-ASCII text the token sequence of
\* convert_char_to_pinyin is the text's character sequence unchanged.
C5_AsciiUnchanged ==
    (seg_pc = "returned" /\ IsAscii(SegText)) => SegOut = Chars(SegText)

\* C5 amended: for every pure-ASCII text the token sequence is the character
\* sequence of the text as replace_quotes leaves it: one token per character,
\* every ';' turned into ',', no transliteration and no inserted space; an
\* occurrence of the 15-character literal of line 52 is one apostrophe token.
C5_AsciiNormalised ==
    (seg_pc = "returned" /\ IsAscii(SegText)) =>
        /\ SegOut = SemiToComma(replace(SegText, MANGLED, APOS))
        /\ MangledAt(SegText) = {} => SegOut = SemiToComma(SegText)

C5_Witness ==
    /\ seg_pc = "returned"
    /\ IsAscii(SegText)
    /\ Len(SegText) = 3
    /\ SegText[1] = 97 /\ SegText[2] = 59 /\ SegText[3] = 97
    /\ SegOut = <<<<97>>, <<44>>, <<97>>>>

\* C6 as stated: for all-Chinese text with polyphone on, every token is a
\* tone-digit-suffixed syllable or a punctuation literal, and a punctuation
\* token has no digit suffix and no space before it.
C6_OnlySyllablesAndPunct ==
    (seg_pc = "returned" /\ polyphone /\ AllChinese(SegText)) =>
        \A k \in 1..Len(SegOut) :
            \/ HasToneDigit(SegOut[k]) /\ Len(SegOut[k]) > 1
            \/ /\ SegOut[k] \in {<<c>> : c \in PunctSet}
               /\ (k > 1 => SegOut[k - 1] # SPACE)

\* C6 amended: for all-Chinese text with polyphone on, every token is an
\* inserted space that is followed by a syllable, or the transliteration's
\* syllable for its character (preceded by one inserted space, and ending in
\* a tone digit whenever the transliteration gives the character a tone), or
\* a punctuation literal, which has no digit suffix and no space before it.
C6_SpacesSyllablesPunct ==
    (seg_pc = "returned" /\ polyphone /\ AllChinese(SegText)) =>
        \A k \in 1..Len(SegOut) :
            LET c == SegText[SegOrigin[k]]
            IN  \/ /\ SegOut[k] = SPACE
                   /\ k < Len(SegOut)
                   /\ c \in HanSet /\ SegOut[k + 1] = PinyinTable[c]
                   /\ (k > 1 => SegOut[k - 1] # SPACE)
                \/ /\ c \in HanSet /\ SegOut[k] = PinyinTable[c]
                   /\ k > 1 /\ SegOut[k - 1] = SPACE
                   /\ (HasToneDigit(PinyinTable[c]) => HasToneDigit(SegOut[k]))
                \/ /\ c \in PunctSet /\ SegOut[k] = <<c>>
                   /\ ~HasToneDigit(SegOut[k])
                   /\ (k > 1 => SegOut[k - 1] # SPACE)

C6_Witness ==
    /\ seg_pc = "returned"
    /\ polyphone
    /\ SegText = NiHaoShiJie
    /\ Len(SegOut) = 9
    /\ SegOut[5] = <<65292>>

\* C7 as stated: no character is dropped: every character of the input is the
\* origin of at least one token, and the tokens come in the order of their
\* characters.
C7_NoCharDropped ==
    seg_pc = "returned" =>
        /\ Len(replace_quotes(SegText)) = Len(SegText)
        /\ \A i \in 1..Len(SegText) : \E k \in 1..Len(SegOrigin) : SegOrigin[k] = i
        /\ \A k \in 1..(Len(SegOrigin) - 1) : SegOrigin[k] <= SegOrigin[k + 1]

\* what remains of C7: it holds of every text that line 52's literal does not
\* occur in
C7_NoCharDroppedUnlessMangled ==
    (seg_pc = "returned" /\ MangledAt(SegText) = {}) =>
        /\ Len(replace_quotes(SegText)) = Len(SegText)
        /\ \A i \in 1..Len(SegText) : \E k \in 1..Len(SegOrigin) : SegOrigin[k] = i
        /\ \A k \in 1..(Len(SegOrigin) - 1) : SegOrigin[k] <= SegOrigin[k + 1]

\* -------------------------------------------------------- indexer claims

IdxTensor == idx_result.value

\* C3: vocabulary indexing is total: list_str_to_idx raises nothing for a
\* token absent from the table, and the ID of every token is the table's ID
\* for it, or exactly 0 when the table has none.
C3_IndexingTotal ==
    idx_pc = "returned" =>
        /\ idx_result.raised = "none"
        /\ Len(IdxTensor) = Len(idx_text)
        /\ \A b \in 1..Len(idx_text) : \A j \in 1..Len(idx_text[b]) :
              /\ j <= Len(IdxTensor[b])
              /\ idx_text[b][j] \in DOMAIN idx_vocab =>
                    IdxTensor[b][j] = idx_vocab[idx_text[b][j]]
              /\ idx_text[b][j] \notin DOMAIN idx_vocab => IdxTensor[b][j] = 0

C3_Witness ==
    /\ idx_pc = "returned"
    /\ idx_result.raised = "none"
    /\ Len(idx_text) = 1 /\ Len(idx_text[1]) = 2
    /\ idx_text[1][1] \in DOMAIN idx_vocab /\ idx_vocab[idx_text[1][1]] = 2
    /\ idx_text[1][2] \notin DOMAIN idx_vocab
    /\ IdxTensor = <<<<2, 0>>>>

\* C4: the matrix is as wide as the longest sequence of the batch, and a
\* position holds the pad sentinel -1 exactly when it lies past its own
\* sequence's length; so for two sequences of lengths L1 < L2 the width is L2
\* and exactly the last L2 - L1 positions of the shorter row are -1.
C4_PaddingOnlyPastLength ==
    (idx_pc = "returned" /\ idx_result.raised = "none") =>
        LET width == SeqMax({Len(idx_text[b]) : b \in 1..Len(idx_text)})
        IN  /\ Len(IdxTensor) = Len(idx_text)
            /\ \A b \in 1..Len(idx_text) :
                  /\ Len(IdxTensor[b]) = width
                  /\ \A j \in 1..width : (IdxTensor[b][j] = -1) <=> (j > Len(idx_text[b]))

C4_Witness ==
    /\ idx_pc = "returned"
    /\ Len(idx_text) = 2
    /\ Len(idx_text[1]) = 1 /\ Len(idx_text[2]) = 2
    /\ Len(IdxTensor[1]) = 2
    /\ IdxTensor[1][1] # -1 /\ IdxTensor[1][2] = -1
    /\ IdxTensor[2][1] # -1 /\ IdxTensor[2][2] # -1

\* -------------------------------------------------------- process claims

\* the engine's outputs for the inputs the latest request handed to it
LastOutputs ==
    EngineOutputs(last.engine_in.audio, last.engine_in.text_ids,
                  last.engine_in.max_duration)

\* what the latest request returned, read back
LastResult == pickle_loads(last.value)

\* C1: a successful call returns the serialization of a tuple of exactly 8
\* arrays: positions 0, 1, 2, 4, 5, 7 hold the engine's outputs 0, 3, 4, 1, 2,
\* 6 and positions 3 and 6 the schedule generator's time embedding and delta-t.
C1_ResultOrder ==
    (requests > 0 /\ last.raised = "none") =>
        /\ last.value[1] = "TUPLE" /\ last.value[2] = 8
        /\ Len(last.value) = 10
        /\ DOMAIN LastResult = 0..7
        /\ LastResult[0] = LastOutputs[0]
        /\ LastResult[1] = LastOutputs[3]
        /\ LastResult[2] = LastOutputs[4]
        /\ LastResult[3] = ScheduleGenerator.time_expand
        /\ LastResult[4] = LastOutputs[1]
        /\ LastResult[5] = LastOutputs[2]
        /\ LastResult[6] = ScheduleGenerator.delta_t
        /\ LastResult[7] = LastOutputs[6]

C1_Witness ==
    /\ requests > 0
    /\ last.raised = "none"
    /\ last.runs = 1
    /\ LastResult[1].output = 3
    /\ LastResult[4].output = 1
    /\ LastResult[3].array = "time_expand"

\* the samples of the latest request's audio at the target rate of 24000
LastSamples ==
    LET a == last_event.input.reference_audio
    IN  IF a.sr = 24000 THEN a.frames
        ELSE (a.frames * 24000 + a.sr - 1) \div a.sr

\* C2: the max-duration handed to the engine is floor(samples / 256) + 1 for
\* the samples of the reference audio at the target rate, whatever ref_text
\* and lang are.
C2_MaxDurationFromAudio ==
    (requests > 0 /\ last.engine_in.reached) =>
        last.engine_in.max_duration = (LastSamples \div 256) + 1

C2_Witness ==
    /\ requests > 0
    /\ last.engine_in.reached
    /\ last_event.input.reference_audio.frames = 24000
    /\ last_event.input.reference_audio.sr = 24000
    /\ last_event.input.ref_text = NiHaoShiJie
    /\ last_event.input.lang = "zh"
    /\ last.ref_text_len > 0
    /\ last.engine_in.max_duration = 94

\* C8: with the model path or the vocabulary path missing, the module body
\* ends in an error at its configuration check: the vocabulary is never
\* loaded, the handler never registered and no request ever handled.
C8_MissingConfigAborts ==
    (~Truthy(ONNX_MODEL_PATH) \/ ~Truthy(VOCAB_FILE)) =>
        /\ pc \in {"start", "aborted"}
        /\ pc = "aborted" => startup_error = "ValueError"
        /\ ~vocab_loaded
        /\ ~registered
        /\ requests = 0
        /\ last = NoCall

C8_Witness ==
    /\ ONNX_MODEL_PATH = None
    /\ VOCAB_FILE = "/models/vocab.txt"
    /\ pc = "aborted"
    /\ startup_error = "ValueError"

\* C9: a failed engine invocation fails the request: the error reaches the
\* caller and nothing is returned; and a request invokes the engine at most
\* once, whatever the invocation's outcome.
C9_EngineFailureFailsRequest ==
    requests > 0 =>
        /\ last.runs <= 1
        /\ (last.engine_in.reached /\ ~last_env.run_ok) =>
              /\ last.runs = 1
              /\ last.raised = "InferenceError"
              /\ last.value = <<>>
        /\ last.raised # "none" => last.value = <<>>

C9_Witness ==
    /\ requests > 0
    /\ last.engine_in.reached
    /\ ~last_env.run_ok
    /\ last.runs = 1
    /\ last.raised = "InferenceError"
    /\ last.value = <<>>

\* C10 as stated: over the requests of one process the inference session is
\* constructed at most once.
C10_SessionBuiltOnce == sessions_built <= 1

\* what the code does instead: one session per request that gets as far as
\* line 131
C10_SessionPerRequest ==
    /\ sessions_built <= requests
    /\ requests > 0 => last.sessions = (IF last.raised \in {"binascii.Error", "DecodeError", "SessionError"} THEN 0 ELSE 1)

\* C11 as stated: a model path or vocabulary path that is set but has no
\* readable file behind it ends the module body in an error: the handler is
\* never registered and no request is ever handled (so none fails for it).
C11_InvalidPathAborts ==
    (/\ Truthy(ONNX_MODEL_PATH) /\ Truthy(VOCAB_FILE)
     /\ (ONNX_MODEL_PATH \notin ReadablePaths \/ VOCAB_FILE \notin ReadablePaths)) =>
        /\ ~registered
        /\ requests = 0
        /\ last.raised = "none"

\* what holds of the code: only an invalid vocabulary path ends the module body
C11_InvalidVocabPathAborts ==
    (/\ Truthy(ONNX_MODEL_PATH) /\ Truthy(VOCAB_FILE)
     /\ VOCAB_FILE \notin ReadablePaths) =>
        /\ pc \in {"start", "checked", "aborted"}
        /\ pc = "aborted" => startup_error = "OSError"
        /\ ~registered
        /\ requests = 0

\* C12: handling requests, successful or failed, changes no process-wide
\* value built at startup: the table is the table loaded from the file, and
\* what a request computes (tokens, index tensor, max-duration, schedule
\* arrays) is what a first request with its event would compute.
C12_RequestsLeaveGlobals ==
    pc = "serving" =>
        /\ vocab_loaded /\ registered
        /\ VOCAB_CHAR_MAP = LoadVocab(vocab_lines)
        /\ requests > 0 =>
              LET first == handler(last_event, last_env, ONNX_MODEL_PATH,
                                   LoadVocab(vocab_lines))
              IN  /\ last.tokens = first.tokens
                  /\ last.engine_in = first.engine_in
                  /\ last.raised = first.raised
                  /\ last.raised = "none" =>
                        /\ LastResult[3] = pickle_loads(first.value)[3]
                        /\ LastResult[6] = pickle_loads(first.value)[6]

\* a second request with a token the table does not hold, after a first one
C12_Witness ==
    /\ pc = "serving"
    /\ requests = 2
    /\ last.raised = "none"
    /\ last_event.input.ref_text = NiHaoShiJie
    /\ \E j \in 1..Len(last.tokens[1]) : last.tokens[1][j] \notin DOMAIN VOCAB_CHAR_MAP
    /\ \E j \in 1..Len(last.engine_in.text_ids[1]) : last.engine_in.text_ids[1][j] > 0

\* the characters of the pause-punctuation set 。，、；：？！
PauseMarks == {zh_pause_punc[k] : k \in 1..Len(zh_pause_punc)}

CountMarks(t) == Cardinality({i \in 1..Len(t) : t[i] \in PauseMarks})

\* C18 as stated: for lang 'zh' the text length is the transcript's UTF-8
\* byte length plus 3 for every character of it that is in the
\* pause-punctuation set; for any other lang it is the UTF-8 byte length.
C18_TextLenCountsEachMark ==
    (requests > 0 /\ last.ref_text_len >= 0) =>
        last.ref_text_len =
            IF last_event.input.lang = "zh"
            THEN Utf8Len(last_event.input.ref_text)
                 + 3 * CountMarks(last_event.input.ref_text)
            ELSE Utf8Len(last_event.input.ref_text)

\* what holds of the code: 3 is added for each occurrence of the whole
\* seven-character string, not for each mark
C18_TextLenCountsWholePattern ==
    (requests > 0 /\ last.ref_text_len >= 0) =>
        last.ref_text_len =
            IF last_event.input.lang = "zh"
            THEN Utf8Len(last_event.input.ref_text)
                 + 3 * Cardinality({k \in 1..(Len(last_event.input.ref_text) - 6) :
                          SubSeq(last_event.input.ref_text, k, k + 6) = zh_pause_punc})
            ELSE Utf8Len(last_event.input.ref_text)

\* a line of the vocabulary file without its terminator
Entry(line) == IF line # <<>> /\ Last(line) = 10 THEN DropLast(line) ELSE line

\* C19 as stated: after startup the table maps the entry of every line i of
\* the file (the line without its terminator) to i, with or without a final
\* terminator; an entry written on several lines has one of their indices.
C19_LineIndexIsId ==
    vocab_loaded =>
        \A n \in 1..Len(vocab_lines) :
            /\ Entry(vocab_lines[n]) \in DOMAIN VOCAB_CHAR_MAP
            /\ VOCAB_CHAR_MAP[Entry(vocab_lines[n])] \in
                  {m - 1 : m \in {q \in 1..Len(vocab_lines) :
                                     Entry(vocab_lines[q]) = Entry(vocab_lines[n])}}

\* what holds of the code: the claim, for a file that ends with a terminator
C19_LineIndexIsIdWhenTerminated ==
    (vocab_loaded /\ Last(Last(vocab_lines)) = 10) =>
        \A n \in 1..Len(vocab_lines) :
            /\ Entry(vocab_lines[n]) \in DOMAIN VOCAB_CHAR_MAP
            /\ VOCAB_CHAR_MAP[Entry(vocab_lines[n])] \in
                  {m - 1 : m \in {q \in 1..Len(vocab_lines) :
                                     Entry(vocab_lines[q]) = Entry(vocab_lines[n])}}

\* the latest event with the other lang
OtherLang(l) == IF l = "zh" THEN "en" ELSE "zh"

LastEventOtherLang ==
    [input |-> [reference_audio |-> last_event.input.reference_audio,
                ref_text |-> last_event.input.ref_text,
                lang |-> OtherLang(last_event.input.lang)]]

\* C20: lang reaches nothing but the text length: with the same audio,
\* transcript and engine behaviour, the call made with the other lang has the
\* same tokens, index tensor, max-duration, engine inputs and result (and
\* 3-byte characters are transliterated under both).
C20_LangOnlyInTextLen ==
    requests > 0 =>
        LET other == handler(LastEventOtherLang, last_env, ONNX_MODEL_PATH,
                             VOCAB_CHAR_MAP)
        IN  /\ other.tokens = last.tokens
            /\ other.engine_in = last.engine_in
            /\ other.raised = last.raised
            /\ other.value = last.value
            /\ other.runs = last.runs
            /\ last.tokens # <<>> =>
                  last.tokens = convert_char_to_pinyin(<<last_event.input.ref_text>>, TRUE)

C20_Witness ==
    /\ requests > 0
    /\ last.raised = "none"
    /\ last_event.input.lang = "en"
    /\ last_event.input.ref_text = zh_pause_punc
    /\ last.ref_text_len = 21
    /\ RefTextLen(zh_pause_punc, "zh") = 24
    /\ last.engine_in.max_duration = 94

\* ------------------------------------------- segmenter claims: spacing

\* the text that the loop of line 65 iterates
SegNorm == replace_quotes(SegText)

\* the tokens that the iteration of character i appended
TokensOf(i) == {k \in 1..Len(SegOrigin) : SegOrigin[k] = i}
FirstOf(i) == CHOOSE k \in TokensOf(i) : \A m \in TokensOf(i) : k <= m
LastOf(i) == CHOOSE k \in TokensOf(i) : \A m \in TokensOf(i) : m <= k

\* character i is handled by the branch of lines 71-77
InChineseBranch(i) == polyphone /\ Utf8Len1(SegNorm[i]) = 3

\* a token that is one kana character
IsKana(tok) ==
    /\ Len(tok) = 1
    /\ tok[1] \in (12352..12447) \cup (12448..12543) \cup (65382..65439)

IsPunctTok(tok) == tok \in {<<c>> : c \in PunctSet}

\* C16: in the Chinese branch a syllable that is no punctuation mark has one
\* inserted space right before it, unless the token emitted just before is a
\* kana character (no token before counts as not Japanese); a punctuation
\* mark is emitted literally with no inserted space.
C16_SpaceBeforeSyllable ==
    seg_pc = "returned" =>
        \A i \in 1..Len(SegNorm) :
            InChineseBranch(i) =>
                LET f == FirstOf(i)
                    p == SegOut[LastOf(i)]
                IN  /\ TokensOf(i) # {}
                    /\ IF IsPunctTok(p)
                       THEN TokensOf(i) = {f} /\ p = <<SegNorm[i]>>
                       ELSE IF f > 1 /\ IsKana(SegOut[f - 1])
                       THEN TokensOf(i) = {f}
                       ELSE TokensOf(i) = {f, f + 1} /\ SegOut[f] = SPACE /\ p # SPACE

C16_Witness ==
    /\ seg_pc = "returned"
    /\ polyphone
    /\ SegText = <<12354, 20320, 65292>>
    /\ SegOut = <<SPACE, <<12354>>, <<110, 105, 51>>, <<65292>>>>

\* C17 as stated: ahead of a multi-byte character no space is inserted when
\* the token before it is a space or a quote character, so two space tokens
\* are adjacent in the output only where two spaces were adjacent in the input.
C17_NoSpaceAfterSpace ==
    seg_pc = "returned" =>
        /\ \A i \in 1..Len(SegNorm) :
              (/\ Utf8Len1(SegNorm[i]) > 1
               /\ TokensOf(i) # {}
               /\ FirstOf(i) > 1
               /\ SegOut[FirstOf(i) - 1] \in {SPACE, APOS, DQUOTE}) =>
                  SegOut[FirstOf(i)] # SPACE
        /\ \A k \in 1..(Len(SegOut) - 1) :
              (SegOut[k] = SPACE /\ SegOut[k + 1] = SPACE) =>
                  /\ SegNorm[SegOrigin[k]] = 32
                  /\ SegNorm[SegOrigin[k + 1]] = 32

\* C17 amended: the space ahead of a 3-byte character's syllable depends on
\* the token before it only through whether that token is Japanese: it is
\* inserted also when that token is a space or a quote character; ahead of
\* any other character no space is inserted; so two space tokens that were
\* not adjacent in the input are adjacent in the output exactly where a space
\* token is followed by such a syllable's inserted space.
C17_SpaceAlsoAfterSpace ==
    seg_pc = "returned" =>
        /\ \A i \in 1..Len(SegNorm) :
              /\ TokensOf(i) # {}
              /\ ~InChineseBranch(i) => TokensOf(i) = {FirstOf(i)}
              /\ (/\ InChineseBranch(i)
                  /\ ~IsPunctTok(SegOut[LastOf(i)])
                  /\ FirstOf(i) > 1
                  /\ IsSubstr(SegOut[FirstOf(i) - 1], NO_SPACE_AFTER)) =>
                     /\ SegOut[FirstOf(i)] = SPACE
                     /\ TokensOf(i) = {FirstOf(i), FirstOf(i) + 1}
        /\ \A k \in 1..(Len(SegOut) - 1) :
              (SegOut[k] = SPACE /\ SegOut[k + 1] = SPACE) =>
                  \/ SegNorm[SegOrigin[k]] = 32 /\ SegNorm[SegOrigin[k + 1]] = 32
                  \/ /\ InChineseBranch(SegOrigin[k + 1])
                     /\ k + 1 = FirstOf(SegOrigin[k + 1])
                     /\ k + 1 < LastOf(SegOrigin[k + 1])

C17_Witness ==
    /\ seg_pc = "returned"
    /\ polyphone
    /\ SegText = <<97, 32, 20320>>
    /\ SegOut = <<<<97>>, SPACE, SPACE, <<110, 105, 51>>>>

\* ------------------------------------------------ schedule generator claims

\* how far lines 174-185 have run
SchedRank ==
    CASE sched_pc = "174" -> 0
      [] sched_pc = "175" -> 1
      [] sched_pc = "176" -> 2
      [] sched_pc = "178" -> 3
      [] sched_pc = "179" -> 4
      [] sched_pc = "180" -> 5
      [] sched_pc = "181" -> 6
      [] sched_pc = "loop" -> 7
      [] sched_pc = "done" -> 8
      [] OTHER -> -1

Abs(x) == IF x < 0 THEN -x ELSE x

\* the rows that line 185 has assigned so far
RowsWritten == IF SchedRank >= 7 THEN loop_i ELSE 0

\* C13: the schedule has 33 points, DeltaT has 32 entries, entry i being the
\* float32 difference of points i+1 and i, and the embedding has shape
\* (1, 32, 256); row i is computed from point i, for i in 0..31, and the last
\* point, 32, is read by the difference only and by no row.
C13_ShapesAndRows ==
    /\ SchedRank >= 2 => DOMAIN time_step = 0..NSteps
    /\ SchedRank >= 3 =>
          /\ DOMAIN delta_t = 0..(NSteps - 1)
          /\ \A i \in 0..(NSteps - 1) :
                Abs(delta_t[i] - (time_step[i + 1] - time_step[i])) <= DiffError
    /\ SchedRank >= 4 =>
          /\ DOMAIN time_expand = {0}
          /\ DOMAIN time_expand[0] = 0..(NSteps - 1)
          /\ \A i \in 0..(NSteps - 1) :
                /\ DOMAIN time_expand[0][i] = 0..(EmbDim - 1)
                /\ \A j \in 0..(EmbDim - 1) :
                      LET e == time_expand[0][i][j]
                      IN  IF i < RowsWritten
                          THEN e.written /\ e.at = i /\ e.t = time_step[i]
                          ELSE ~e.written
    /\ sched_pc = "done" => RowsWritten = NSteps

C13_Witness ==
    /\ sched_pc = "done"
    /\ rounding = NoRounding
    /\ time_step[NSteps] = One
    /\ delta_t[NSteps - 1] = One - time_step[NSteps - 1]
    /\ time_expand[0][NSteps - 1][0].at = NSteps - 1
    /\ time_expand[0][NSteps - 1][0].t = time_step[NSteps - 1]
    /\ time_expand[0][NSteps - 1][0].t < One

\* the tolerance 1e-6
Tolerance == One \div 10^6

RECURSIVE SumTo(_, _)
SumTo(f, n) == IF n < 0 THEN 0 ELSE f[n] + SumTo(f, n - 1)

\* C14: every point of the schedule is 1 - cos(pi/2 * i/32) within 1e-6, so
\* the first is 0 and the last is 1 within 1e-6; and the 32 entries of DeltaT
\* sum to 1 within 1e-6.
C14_WarpEndpointsAndSum ==
    /\ SchedRank >= 2 =>
          /\ Abs(time_step[0]) <= Tolerance
          /\ Abs(time_step[NSteps] - One) <= Tolerance
          /\ \A i \in 0..NSteps :
                Abs(time_step[i] - (One - CosTable[i + 1])) <= Tolerance
    /\ SchedRank >= 3 =>
          Abs(SumTo(delta_t, NSteps - 1) - One) <= Tolerance

C14_Witness ==
    /\ sched_pc = "done"
    /\ rounding = [first |-> -WarpError, mid |-> 0, last |-> WarpError,
                   diff |-> DiffError]
    /\ time_step[0] < 0
    /\ time_step[NSteps] > One
    /\ SumTo(delta_t, NSteps - 1) > One + 2 * WarpError

\* the frequency 1000 * exp(-k * ln(10000) / (128 - 1))
Frequency(k) ==
    [scale |-> 1000, k |-> k, rate |-> [log_of |-> 10000, den |-> 128 - 1]]

\* C15: in every assigned row i the first 128 entries are sin(t'_i * f_k) and
\* the last 128 are cos(t'_i * f_k), k = 0..127, with the one frequency vector
\* f_k = 1000 * exp(-k * ln(10000) / 127); 256 is even; when the generator is
\* done every entry of the (1, 32, 256) array has been assigned.
C15_SinThenCos ==
    /\ EmbDim % 2 = 0
    /\ SchedRank >= 5 => 2 * half_dim = EmbDim /\ half_dim = 128
    /\ SchedRank >= 7 =>
          \A i \in 0..(RowsWritten - 1) :
              \A k \in 0..127 :
                  LET s == time_expand[0][i][k]
                      c == time_expand[0][i][128 + k]
                  IN  /\ s.written /\ s.fn = "sin" /\ s.t = time_step[i]
                      /\ s.f = Frequency(k)
                      /\ c.written /\ c.fn = "cos" /\ c.t = time_step[i]
                      /\ c.f = Frequency(k)
    /\ sched_pc = "done" =>
          \A b \in DOMAIN time_expand :
              \A i \in DOMAIN time_expand[b] :
                  \A j \in DOMAIN time_expand[b][i] : time_expand[b][i][j].written

\* a finished run in which row 0 holds sin(0 * f_k): entries that were
\* assigned and whose value is zero all the same
C15_Witness ==
    /\ sched_pc = "done"
    /\ rounding = NoRounding
    /\ time_expand[0][0][0] =
          [written |-> TRUE, fn |-> "sin", t |-> 0, at |-> 0, f |-> Frequency(0)]
    /\ time_expand[0][NSteps - 1][EmbDim - 1].fn = "cos"
    /\ time_expand[0][NSteps - 1][EmbDim - 1].f = Frequency(127)

\* ---------------------------------------------------- authentication claims

\* the row of the table whose key column holds the SHA-256 digest of the
\* presented key, if that row is active, not expired at the time of the
\* request, and owned by a user that exists and is active
KeyGrants(api_key, user) ==
    /\ api_key \in PresentedKeys \cup {""}
    /\ \E stored \in DOMAIN keys_before :
          /\ stored = Sha256Table[api_key]
          /\ keys_before[stored].is_active
          /\ \/ keys_before[stored].expires_at = NoTime
             \/ keys_before[stored].expires_at >= auth_request.now
          /\ keys_before[stored].user_id = user
          /\ user \in DOMAIN db_users
          /\ db_users[user].is_active

VoiceOver == voice_pc \in {"returned", "raised"}

IsPrefix(a, b) == Len(a) <= Len(b) /\ SubSeq(b, 1, Len(a)) = a

\* the statuses are committed in the order pending, processing, ready, with
\* failed after any of them
StatusOrder ==
    \E n \in 1..3 :
        \/ committed = SubSeq(<<"pending", "processing", "ready">>, 1, n)
        \/ committed = SubSeq(<<"pending", "processing", "ready">>, 1, n) \o <<"failed">>

\* the call is over with the row ready, its cache path set and its entry in Redis
ReadyAndCached ==
    /\ voice_row.status = "ready"
    /\ voice_row.cache_file_path = ExampleCache
    /\ cache_key(voice_row.id) \in DOMAIN redis_store
    /\ redis_store[cache_key(voice_row.id)] = CacheData(voice_row)

\* C22 as stated: once process_voice is over, the committed status is ready
\* (cache path set, Redis entry written) if it returned and failed if it
\* raised, and never pending or processing; the statuses were committed in
\* the order pending, processing, ready, then failed if the Redis write failed.
C22_StatusWhenOver ==
    /\ StatusOrder
    /\ VoiceOver =>
          /\ voice_pc = "returned" => ReadyAndCached
          /\ voice_pc = "raised" => voice_row.status = "failed"
          /\ voice_row.status \notin {"pending", "processing"}

\* what holds of the code: the claim, for the calls in which every commit
\* went through and no await was cancelled; and a call that raised with
\* another status than failed is one in which a commit raised or the await
\* was cancelled
C22_StatusWhenOverAndCommitted ==
    /\ StatusOrder
    /\ VoiceOver =>
          /\ voice_pc = "returned" => ReadyAndCached
          /\ (voice_pc = "raised" /\ commits_failed = 0 /\ voice_exc = "Exception") =>
                /\ voice_row.status = "failed"
                /\ committed = <<"pending", "processing", "ready", "failed">>
          /\ (voice_pc = "raised" /\ voice_row.status # "failed") =>
                commits_failed > 0 \/ voice_exc = "CancelledError"

====
